---- MODULE Spec2Model ----
(***************************************************************************)
(* Model of wfuzz/externals/moduleman/loader.py: FileLoader and DirLoader,  *)
(* the registrant they call, and the file system they read.                 *)
(*                                                                         *)
(* Strings are sequences of tokens.  A token is "/", "." or a maximal run   *)
(* of other characters ("plugins", "py", "Foo"): every string operation     *)
(* the loader uses (join, split, relpath, lstrip('./'), endswith) cuts      *)
(* only at "/" and "." characters, so "/plugins/a.py" is                    *)
(* <<"/", "plugins", "/", "a", ".", "py">>.                                 *)
(***************************************************************************)
EXTENDS Integers, Sequences, FiniteSets, TLC

VARIABLES
    fs,         \* the entries below /plugins/http, in os.listdir order
    loader,     \* [class, attrs]: the loader object and its instance attributes
    params,     \* keyword arguments of the most recent set_params call
    accepted,   \* keyword arguments of the most recent set_params call that had all required keys
    structure,  \* DirLoader.structure: [set, walked]
    calls,      \* calls the registrant received from the most recent load
    log,        \* log records emitted by the most recent load
    op,         \* the most recent operation
    outcome     \* how it ended: "none", "returned" or the exception class that left it

vars == <<fs, loader, params, accepted, structure, calls, log, op, outcome>>

-----------------------------------------------------------------------------
(* Bounds *)

MaxNodes == 3

-----------------------------------------------------------------------------
(* Strings *)

Sep == "/"
Dot == "."

Take(s, n) == SubSeq(s, 1, n)
Drop(s, n) == SubSeq(s, n + 1, Len(s))

\* str.startswith / str.endswith
StartsWith(s, pre) == Len(s) >= Len(pre) /\ Take(s, Len(pre)) = pre
EndsWith(s, suf) == Len(s) >= Len(suf) /\ Drop(s, Len(s) - Len(suf)) = suf

\* str.lstrip(chars): drops every leading character that is in chars
RECURSIVE lstrip(_, _)
lstrip(s, chars) ==
    IF s # <<>> /\ Head(s) \in chars THEN lstrip(Tail(s), chars) ELSE s

\* str.rstrip(chars)
RECURSIVE rstrip(_, _)
rstrip(s, chars) ==
    IF s # <<>> /\ s[Len(s)] \in chars THEN rstrip(Take(s, Len(s) - 1), chars) ELSE s

\* str.rfind('/') + 1: the length of the prefix that ends at the last separator
RECURSIVE rfindSep(_)
rfindSep(s) ==
    IF s = <<>> THEN 0
    ELSE IF s[Len(s)] = Sep THEN Len(s) ELSE rfindSep(Take(s, Len(s) - 1))

\* str.split('/'): the pieces between separators, empty pieces included
RECURSIVE splitSep(_, _)
splitSep(s, cur) ==
    IF s = <<>> THEN <<cur>>
    ELSE IF Head(s) = Sep THEN <<cur>> \o splitSep(Tail(s), <<>>)
    ELSE splitSep(Tail(s), Append(cur, Head(s)))

\* '/'.join(comps)
RECURSIVE joinSep(_)
joinSep(comps) ==
    IF comps = <<>> THEN <<>>
    ELSE IF Len(comps) = 1 THEN comps[1]
    ELSE comps[1] \o <<Sep>> \o joinSep(Tail(comps))

-----------------------------------------------------------------------------
(* os.path (posixpath) *)

CurDir == <<Dot>>
ParDir == <<Dot, Dot>>

\* the process's working directory, used by abspath for relative paths
Cwd == <<Sep>>

path_join(a, b) ==
    IF StartsWith(b, <<Sep>>) THEN b
    ELSE IF a = <<>> \/ EndsWith(a, <<Sep>>) THEN a \o b
    ELSE a \o <<Sep>> \o b

\* os.path.split: (head, tail), head without its trailing separators unless it is all separators
path_split(p) ==
    LET i == rfindSep(p)
        head == Take(p, i)
        tail == Drop(p, i)
    IN  <<IF rstrip(head, {Sep}) # <<>> THEN rstrip(head, {Sep}) ELSE head, tail>>

RECURSIVE normComps(_, _, _)
normComps(comps, acc, absolute) ==
    IF comps = <<>> THEN acc
    ELSE LET c == Head(comps) IN
         IF c = <<>> \/ c = CurDir THEN normComps(Tail(comps), acc, absolute)
         ELSE IF c # ParDir \/ (~absolute /\ acc = <<>>)
                 \/ (acc # <<>> /\ acc[Len(acc)] = ParDir)
              THEN normComps(Tail(comps), Append(acc, c), absolute)
         ELSE IF acc # <<>> THEN normComps(Tail(comps), Take(acc, Len(acc) - 1), absolute)
         ELSE normComps(Tail(comps), acc, absolute)

path_normpath(p) ==
    IF p = <<>> THEN CurDir
    ELSE LET absolute == StartsWith(p, <<Sep>>)
             body == joinSep(normComps(splitSep(p, <<>>), <<>>, absolute))
             res == IF absolute THEN <<Sep>> \o body ELSE body
         IN  IF res = <<>> THEN CurDir ELSE res

path_abspath(p) ==
    path_normpath(IF StartsWith(p, <<Sep>>) THEN p ELSE path_join(Cwd, p))

\* the non-empty pieces of an absolute path
PathList(p) == SelectSeq(splitSep(path_abspath(p), <<>>), LAMBDA c : c # <<>>)

RECURSIVE commonprefix(_, _)
commonprefix(a, b) ==
    IF a = <<>> \/ b = <<>> \/ Head(a) # Head(b) THEN 0
    ELSE 1 + commonprefix(Tail(a), Tail(b))

path_relpath(path, start) ==
    LET start_list == PathList(start)
        path_list == PathList(path)
        i == commonprefix(start_list, path_list)
        rel_list == [k \in 1..(Len(start_list) - i) |-> ParDir] \o Drop(path_list, i)
    IN  IF rel_list = <<>> THEN CurDir ELSE joinSep(rel_list)

-----------------------------------------------------------------------------
(* The file system.  "/", "/plugins" and "/plugins/http" always exist and   *)
(* are readable directories; the entries below /plugins/http are the        *)
(* sequence fs, entry i being [parent, e]: parent is 0 for /plugins/http    *)
(* or the index of an earlier directory entry, e describes the entry.       *)
(* os.listdir yields a directory's entries in index order.                  *)

\* A top-level name bound in a module: what dir(module) and getattr give
Member(n, c, m) == [name |-> n, isclass |-> c, marked |-> m]

\* A regular file. body: the names its top-level code binds, in dir() order;
\* fault: the exception raised on the way ("none" when it loads), defined:
\* how many names of body are bound when the fault strikes; readable: whether
\* open() succeeds.
File(n, b, f, d, r) ==
    [name |-> n, kind |-> "file", mode |-> IF r THEN "ok" ELSE "unreadable",
     body |-> b, fault |-> f, defined |-> d]

\* A directory. mode "ok"; "unreadable" (permission bits 000: listing it and
\* looking anything up in it fail); "vanishing" (another process removes it
\* after the parent's os.path.isdir test at line 139 and before the test at
\* line 128).
Dir(n, m) ==
    [name |-> n, kind |-> "dir", mode |-> m, body |-> <<>>, fault |-> "none", defined |-> 0]

BasicPy == File(<<"basic", Dot, "py">>,
                <<Member("BasicAuth", TRUE, TRUE), Member("Helper", TRUE, FALSE),
                  Member("make", FALSE, TRUE)>>, "none", 3, TRUE)
DigestPy == File(<<"digest", Dot, "py">>,
                 <<Member("BasicAuth", TRUE, TRUE), Member("Digest", TRUE, TRUE)>>,
                 "none", 2, TRUE)
RaisingPy == File(<<"raising", Dot, "py">>,
                  <<Member("Pre", TRUE, TRUE), Member("Post", TRUE, TRUE)>>,
                  "RuntimeError", 1, TRUE)
BrokenPy == File(<<"broken", Dot, "py">>, <<Member("Never", TRUE, TRUE)>>,
                 "SyntaxError", 0, TRUE)
LockedPy == File(<<"locked", Dot, "py">>, <<Member("Locked", TRUE, TRUE)>>,
                 "PermissionError", 0, FALSE)
HiddenPy == File(<<Dot, "hidden", Dot, "py">>, <<Member("Hidden", TRUE, TRUE)>>,
                 "none", 1, TRUE)
ReadmeTxt == File(<<"readme", Dot, "txt">>, <<>>, "none", 0, TRUE)

AuthDir == Dir(<<"auth">>, "ok")
DotAuthDir == Dir(<<Dot, "auth">>, "ok")
PrivDir == Dir(<<"priv">>, "unreadable")
TmpDir == Dir(<<"tmp">>, "vanishing")

\* The entries a directory may hold, in the order the storage layer lists
\* them: os.listdir's order is a function of the names in the directory.
ListingOrder == <<BasicPy, TmpDir, RaisingPy, AuthDir, LockedPy, ReadmeTxt, BrokenPy,
                  PrivDir, HiddenPy, DotAuthDir, DigestPy>>

Rank(e) == CHOOSE i \in 1..Len(ListingOrder) : ListingOrder[i] = e

Entries == { ListingOrder[i] : i \in 1..Len(ListingOrder) }

\* Entry e may be appended to tree t under parent p: p is /plugins/http or a
\* directory that stays in place, entries are numbered breadth-first, and a
\* directory's entries have distinct names and stand in listing order.
CanAdd(t, p, e) ==
    /\ p = 0 \/ (t[p].e.kind = "dir" /\ t[p].e.mode = "ok")
    /\ \A i \in 1..Len(t) : t[i].parent <= p
    /\ \A i \in 1..Len(t) : t[i].parent = p => Rank(t[i].e) < Rank(e)

RECURSIVE TreesOfSize(_)
TreesOfSize(n) ==
    IF n = 0 THEN {<<>>}
    ELSE UNION { { Append(t, [parent |-> p, e |-> e]) :
                     <<p, e>> \in { pe \in (0..(n - 1)) \X Entries : CanAdd(t, pe[1], pe[2]) } }
                 : t \in TreesOfSize(n - 1) }

Trees == UNION { TreesOfSize(n) : n \in 0..MaxNodes }

\* inode numbers: the fixed directories, then the entries of fs
Missing == -3
SlashDir == -2
PluginsDir == -1
HttpDir == 0

InodeKind(t, i) == IF i = Missing THEN "none" ELSE IF i <= 0 THEN "dir" ELSE t[i].e.kind
InodeMode(t, i) == IF i <= 0 THEN "ok" ELSE t[i].e.mode
InodeParent(t, i) ==
    IF i = SlashDir \/ i = PluginsDir THEN SlashDir
    ELSE IF i = HttpDir THEN PluginsDir ELSE t[i].parent

\* the entry called name in directory d
Lookup(t, d, name) ==
    IF d = SlashDir THEN (IF name = <<"plugins">> THEN PluginsDir ELSE Missing)
    ELSE IF d = PluginsDir THEN (IF name = <<"http">> THEN HttpDir ELSE Missing)
    ELSE LET hits == { i \in 1..Len(t) : t[i].parent = d /\ t[i].e.name = name }
         IN  IF hits = {} THEN Missing ELSE CHOOSE i \in hits : TRUE

\* path resolution as the kernel does it, one component at a time
RECURSIVE Namei(_, _, _)
Namei(t, cur, comps) ==
    IF comps = <<>> \/ cur = Missing THEN cur
    ELSE IF InodeKind(t, cur) # "dir" \/ InodeMode(t, cur) = "unreadable" THEN Missing
    ELSE LET c == Head(comps) IN
         IF c = <<>> \/ c = CurDir THEN Namei(t, cur, Tail(comps))
         ELSE IF c = ParDir THEN Namei(t, InodeParent(t, cur), Tail(comps))
         ELSE Namei(t, Lookup(t, cur, c), Tail(comps))

Resolve(t, path) == IF path = <<>> THEN Missing ELSE Namei(t, SlashDir, splitSep(path, <<>>))

os_path_isfile(t, path) == InodeKind(t, Resolve(t, path)) = "file"
os_path_isdir(t, path) == InodeKind(t, Resolve(t, path)) = "dir"

\* os.listdir(dirname): the names, in index order
os_listdir(t, path) ==
    LET d == Resolve(t, path)
        RECURSIVE names(_)
        names(i) == IF i > Len(t) THEN <<>>
                    ELSE IF t[i].parent = d THEN <<t[i].e.name>> \o names(i + 1)
                    ELSE names(i + 1)
    IN  names(1)

-----------------------------------------------------------------------------
(* The loaders.  A loader is [class, attrs]; attrs maps the names of the    *)
(* instance attributes that are set to their values, and keyword arguments  *)
(* are a mapping from the supplied keys to their values.                    *)

EmptyDict == [k \in {} |-> <<>>]

Has(d, k) == k \in DOMAIN d

\* set_params storing whichever of its keys are supplied
FileLoader_set_params_Partial(attrs, p) ==
    (IF Has(p, "filename") THEN "filename" :> p["filename"] ELSE EmptyDict)
    @@ (IF Has(p, "base_path")
        THEN "base_path" :> (IF EndsWith(p["base_path"], <<Sep>>)
                             THEN Take(p["base_path"], Len(p["base_path"]) - 1)
                             ELSE p["base_path"])
        ELSE EmptyDict)
    @@ attrs

\* FileLoader.set_params(**params): the attributes afterwards
FileLoader_set_params(attrs, p) ==
    IF ~Has(p, "base_path") \/ ~Has(p, "filename") THEN attrs
    ELSE LET bp == p["base_path"] IN
         ("filename" :> p["filename"])
         @@ ("base_path" :> IF EndsWith(bp, <<Sep>>) THEN Take(bp, Len(bp) - 1) ELSE bp)
         @@ attrs

\* DirLoader.set_params(**params)
DirLoader_set_params(attrs, p) ==
    IF ~Has(p, "base_dir") \/ ~Has(p, "base_path") THEN attrs
    ELSE LET bp == p["base_path"] IN
         ("base_dir" :> p["base_dir"])
         @@ ("base_path" :> IF EndsWith(bp, <<Sep>>) THEN Take(bp, Len(bp) - 1) ELSE bp)
         @@ attrs

\* FileLoader._build_id(filename, objname)
FileLoader_build_id(attrs, filename, objname) ==
    LET filepath == path_split(filename)[1]
        relative_path == path_relpath(filepath, attrs["base_path"])
        identifier == path_join(relative_path, <<objname>>)
    IN  lstrip(identifier, {Dot, Sep})

\* _build_id without the override: relative to base_path alone
DirLoader_build_id_FromBasePath(attrs, filename, objname) ==
    FileLoader_build_id(attrs, filename, objname)

\* _build_id with the unit's name between the directory and the member's name
DirLoader_build_id_WithUnitName(attrs, filename, objname) ==
    LET parts == path_split(filename)
        unit == IF EndsWith(parts[2], <<Dot, "py">>)
                THEN Take(parts[2], Len(parts[2]) - 2) ELSE parts[2]
        relative_path == path_relpath(parts[1], path_join(attrs["base_path"], attrs["base_dir"]))
        identifier == path_join(path_join(relative_path, unit), <<objname>>)
    IN  lstrip(identifier, {Dot, Sep})

\* DirLoader._build_id(filename, objname)
DirLoader_build_id(attrs, filename, objname) ==
    LET filepath == path_split(filename)[1]
        relative_path == path_relpath(filepath, path_join(attrs["base_path"], attrs["base_dir"]))
        identifier == path_join(relative_path, <<objname>>)
    IN  lstrip(identifier, {Dot, Sep})

\* self._build_id: the method of the object's class
build_id(ldr, filename, objname) ==
    IF ldr.class = "DirLoader" THEN DirLoader_build_id(ldr.attrs, filename, objname)
    ELSE FileLoader_build_id(ldr.attrs, filename, objname)

\* what the registrant and the logger receive
Register(id, filename, objname) ==
    [op |-> "register", id |-> id, file |-> filename, name |-> objname]
EndLoading == [op |-> "end_loading", id |-> <<>>, file |-> <<>>, name |-> ""]
LogRec(level, msg, arg) == [level |-> level, msg |-> msg, arg |-> arg]

\* importlib.util.spec_from_file_location gives a spec only for a source suffix
HasSourceSuffix(filename) == EndsWith(filename, <<Dot, "py">>)

\* the loop over dir(module): one register call per marked class
RECURSIVE RegisterMembers(_, _, _)
RegisterMembers(ldr, filename, members) ==
    IF members = <<>> THEN <<>>
    ELSE LET m == Head(members)
             rest == RegisterMembers(ldr, filename, Tail(members))
         IN  IF m.isclass /\ m.marked /\ ldr.attrs["module_registrant"]
             THEN <<Register(build_id(ldr, filename, m.name), filename, m.name)>> \o rest
             ELSE rest

\* the rest of _load_py_from_file once the file is known to exist (lines 51-83)
load_existing(ldr, filename, node) ==
    LET start == <<LogRec("debug", "START", filename)>>
        spec_is_none == ~HasSourceSuffix(filename)
        \* the exception the try block ends with; module_from_spec has bound
        \* module before exec_module raises
        caught == IF spec_is_none THEN "ImportError"
                  ELSE IF node.mode = "unreadable" THEN "PermissionError"
                  ELSE node.fault
        module_is_none == spec_is_none
        members == IF caught = "none" THEN node.body ELSE Take(node.body, node.defined)
        \* finally: spec.loader.get_data(filename) opens the file once more
        in_finally == IF ~spec_is_none /\ node.mode = "unreadable"
                      THEN "PermissionError" ELSE "none"
        logged == IF caught = "none" THEN start
                  ELSE Append(start, LogRec("critical", caught, filename))
    IN  IF in_finally # "none" THEN [calls |-> <<>>, raised |-> in_finally, log |-> logged]
        ELSE IF module_is_none THEN [calls |-> <<>>, raised |-> "none", log |-> logged]
        ELSE [calls |-> RegisterMembers(ldr, filename, members), raised |-> "none",
              log |-> Append(logged, LogRec("debug", "END", filename))]

\* FileLoader._load_py_from_file(filename): [calls, log, raised]
load_py_from_file(t, ldr, filename) ==
    IF ~os_path_isfile(t, filename)
    THEN [calls |-> <<>>, raised |-> "none",
          log |-> <<LogRec("debug", "START", filename),
                    LogRec("critical", "File not found", filename)>>]
    ELSE load_existing(ldr, filename, t[Resolve(t, filename)].e)

\* the nodes of the walk record
Leaf(path) == [leaf |-> TRUE, path |-> path, name |-> <<>>, children |-> <<>>]
Pair(name, ret) == [leaf |-> FALSE, path |-> <<>>, name |-> name, children |-> ret]

\* line 134 without the suffix test
IsCodeFile_AnyFile(t, current, f) == os_path_isfile(t, current)

\* line 134: the entry is loaded as a code file
IsCodeFile(t, current, f) == os_path_isfile(t, current) /\ EndsWith(f, <<Dot, "py">>)

\* lines 142-143 without the test of ret
RecordSubdir_Always(dir_list, f, ret) == Append(dir_list, Pair(f, ret))

\* lines 142-143: a sub-directory's result is recorded
RecordSubdir(dir_list, f, ret) ==
    IF ret # <<>> THEN Append(dir_list, Pair(f, ret)) ELSE dir_list

\* line 128: the directory is still there when its own walk starts
StillADirectory(t, dirname) ==
    os_path_isdir(t, dirname) /\ InodeMode(t, Resolve(t, dirname)) # "vanishing"

WalkResult(c, l, d, r) == [calls |-> c, log |-> l, dir_list |-> d, raised |-> r]

\* DirLoader.__walk_dir_tree(dirname): [calls, log, dir_list, raised]
RECURSIVE walk_dir_tree(_, _, _)
RECURSIVE walk_entries(_, _, _, _, _)
walk_dir_tree(t, ldr, dirname) ==
    IF ~StillADirectory(t, dirname)
    THEN WalkResult(<<>>, <<LogRec("error", "Directory does not exist", dirname)>>, <<>>, "none")
    ELSE IF InodeMode(t, Resolve(t, dirname)) = "unreadable"
    THEN WalkResult(<<>>, <<>>, <<>>, "PermissionError")
    ELSE walk_entries(t, ldr, dirname, os_listdir(t, dirname), WalkResult(<<>>, <<>>, <<>>, "none"))

\* lines 137-138: the result r of loading a code file joins the level's result
AfterFile(acc, current, r) ==
    IF r.raised # "none"
    THEN WalkResult(acc.calls \o r.calls, acc.log \o r.log, acc.dir_list, r.raised)
    ELSE WalkResult(acc.calls \o r.calls, acc.log \o r.log,
                    Append(acc.dir_list, Leaf(current)), "none")

\* lines 141-143: the result ret of walking a sub-directory joins the level's result
AfterSubdir(acc, f, ret) ==
    IF ret.raised # "none"
    THEN WalkResult(acc.calls \o ret.calls, acc.log \o ret.log, acc.dir_list, ret.raised)
    ELSE WalkResult(acc.calls \o ret.calls, acc.log \o ret.log,
                    RecordSubdir(acc.dir_list, f, ret.dir_list), "none")

\* one iteration of the for loop (lines 133-143) on entry f
VisitEntry(t, ldr, dirname, f, acc) ==
    LET current == path_join(dirname, f) IN
    IF IsCodeFile(t, current, f)
    THEN AfterFile(acc, current,
                   IF ldr.attrs["module_registrant"]
                   THEN load_py_from_file(t, ldr, current)
                   ELSE [calls |-> <<>>, raised |-> "none", log |-> <<>>])
    ELSE IF os_path_isdir(t, current)
    THEN AfterSubdir(acc, f, walk_dir_tree(t, ldr, current))
    ELSE acc

\* an exception leaves the loop, otherwise it goes on with the next entry
Continue(t, ldr, dirname, names, acc) ==
    IF acc.raised # "none" THEN acc ELSE walk_entries(t, ldr, dirname, names, acc)

\* the for loop of __walk_dir_tree over the entries still to visit
walk_entries(t, ldr, dirname, names, acc) ==
    IF names = <<>> THEN acc
    ELSE Continue(t, ldr, dirname, Tail(names), VisitEntry(t, ldr, dirname, Head(names), acc))

\* lines 119-122 of __load_all, given the result w of the walk
AfterWalk(ldr, dir_name, w) ==
    IF w.raised # "none"
    THEN [walked |-> <<>>, calls |-> w.calls, log |-> w.log, raised |-> w.raised]
    ELSE [walked |-> <<[root |-> dir_name, nodes |-> w.dir_list]>>,
          calls |-> IF ldr.attrs["module_registrant"]
                    THEN Append(w.calls, EndLoading) ELSE w.calls,
          log |-> w.log, raised |-> "none"]

\* the body of DirLoader.__load_all, given the result of its os.path.isdir test
load_all_body(t, ldr, dir_name, is_dir) ==
    IF ~is_dir THEN [walked |-> <<>>, calls |-> <<>>, log |-> <<>>, raised |-> "none"]
    ELSE AfterWalk(ldr, dir_name, walk_dir_tree(t, ldr, dir_name))

\* __load_all without the os.path.isdir test of line 117
load_all_Unchecked(t, ldr, dir_name) == load_all_body(t, ldr, dir_name, TRUE)

\* DirLoader.__load_all(dir_name)
load_all(t, ldr, dir_name) == load_all_body(t, ldr, dir_name, os_path_isdir(t, dir_name))

-----------------------------------------------------------------------------
(* Operations *)

\* IModuleLoader.__init__(**params): set_params on an object without attributes
Construct(class, p) ==
    [class |-> class,
     attrs |-> IF class = "DirLoader" THEN DirLoader_set_params(EmptyDict, p)
               ELSE FileLoader_set_params(EmptyDict, p)]

RequiredKeys(class) ==
    IF class = "DirLoader" THEN {"base_path", "base_dir"} ELSE {"base_path", "filename"}

Complete(class, p) == RequiredKeys(class) \subseteq DOMAIN p

NoCall == [some |-> FALSE, p |-> EmptyDict]
Call(p) == [some |-> TRUE, p |-> p]

\* the state right after class(**p) on file system t
Constructed(t, class, p) ==
    /\ fs = t
    /\ loader = Construct(class, p)
    /\ params = p
    /\ accepted = IF Complete(class, p) THEN Call(p) ELSE NoCall
    /\ structure = [set |-> FALSE, walked |-> <<>>]
    /\ calls = <<>>
    /\ log = <<>>
    /\ op = "__init__"
    /\ outcome = "returned"

\* loader.set_params(**p) on a FileLoader
FileSetParams(p) ==
    /\ loader.class = "FileLoader"
    /\ loader' = [loader EXCEPT !.attrs = FileLoader_set_params(loader.attrs, p)]
    /\ params' = p
    /\ accepted' = IF Complete("FileLoader", p) THEN Call(p) ELSE accepted
    /\ op' = "set_params"
    /\ outcome' = "returned"
    /\ UNCHANGED <<fs, structure, calls, log>>

\* loader.set_params(**p) on a DirLoader
DirSetParams(p) ==
    /\ loader.class = "DirLoader"
    /\ loader' = [loader EXCEPT !.attrs = DirLoader_set_params(loader.attrs, p)]
    /\ params' = p
    /\ accepted' = IF Complete("DirLoader", p) THEN Call(p) ELSE accepted
    /\ op' = "set_params"
    /\ outcome' = "returned"
    /\ UNCHANGED <<fs, structure, calls, log>>

\* what FileLoader.load leaves behind, r being the result of _load_py_from_file
FileLoaded(r) ==
    /\ calls' = r.calls
    /\ log' = r.log
    /\ outcome' = IF r.raised = "none" THEN "returned" ELSE r.raised

\* what DirLoader.load leaves behind, r being the result of __load_all:
\* line 104 assigns self.structure only when __load_all returns
DirLoaded(r) ==
    /\ calls' = r.calls
    /\ log' = r.log
    /\ outcome' = IF r.raised = "none" THEN "returned" ELSE r.raised
    /\ structure' = IF r.raised = "none" THEN [set |-> TRUE, walked |-> r.walked]
                    ELSE structure

\* FileLoader.load(registrant); registrant is TRUE for a registrant object and
\* FALSE for None
FileLoad(registrant) ==
    /\ loader.class = "FileLoader"
    /\ LET ldr == [loader EXCEPT !.attrs = ("module_registrant" :> registrant) @@ loader.attrs]
       IN  /\ loader' = ldr
           /\ op' = "load"
           /\ UNCHANGED <<fs, params, accepted, structure>>
           /\ IF ~Has(ldr.attrs, "base_path") \/ ~Has(ldr.attrs, "filename")
              THEN calls' = <<>> /\ log' = <<>> /\ outcome' = "AttributeError"
              ELSE FileLoaded(load_py_from_file(fs, ldr,
                              path_join(ldr.attrs["base_path"], ldr.attrs["filename"])))

\* DirLoader.load(registrant)
DirLoad(registrant) ==
    /\ loader.class = "DirLoader"
    /\ LET ldr == [loader EXCEPT !.attrs = ("module_registrant" :> registrant) @@ loader.attrs]
       IN  /\ loader' = ldr
           /\ op' = "load"
           /\ UNCHANGED <<fs, params, accepted>>
           /\ IF ~Has(ldr.attrs, "base_path") \/ ~Has(ldr.attrs, "base_dir")
              THEN calls' = <<>> /\ log' = <<>> /\ outcome' = "AttributeError"
                   /\ UNCHANGED structure
              ELSE DirLoaded(load_all(fs, ldr,
                             path_join(ldr.attrs["base_path"], ldr.attrs["base_dir"])))

-----------------------------------------------------------------------------
(* Inputs *)

Plugins == <<Sep, "plugins">>
PluginsSlash == <<Sep, "plugins", Sep>>
Http == <<"http">>
Nope == <<"nope">>
WalkRoot == <<Sep, "plugins", Sep, "http">>

\* keyword arguments: each key absent or bound to one of vals
KW(k, vals) == {EmptyDict} \cup { k :> v : v \in vals }

\* every combination of the three keys the loaders read
AllParams ==
    { a @@ b @@ c : a \in KW("base_path", {Plugins, PluginsSlash, <<Sep, "opt">>}),
                    b \in KW("base_dir", {Http, Nope}),
                    c \in KW("filename", {<<"http", Sep, "auth", Sep, "basic", Dot, "py">>,
                                           <<"http", Sep, "readme", Dot, "txt">>}) }

\* complete configurations of a DirLoader: the root exists or does not
DirConfigs ==
    { ("base_path" :> PluginsSlash) @@ ("base_dir" :> d) : d \in {Http, Nope} }

\* complete configurations of a FileLoader
FileConfigs ==
    { ("base_path" :> b) @@ ("filename" :> f) :
        b \in {WalkRoot, <<Sep, "plugins", Sep, "http", Sep, "auth", Sep>>},
        f \in {<<"basic", Dot, "py">>, <<Dot, Dot, Sep, "basic", Dot, "py">>,
               <<Dot, "auth", Sep, "basic", Dot, "py">>, <<"locked", Dot, "py">>,
               <<"readme", Dot, "txt">>} }

\* /plugins/http holding auth/basic.py and readme.txt
ScenarioTree ==
    <<[parent |-> 0, e |-> AuthDir], [parent |-> 0, e |-> ReadmeTxt],
      [parent |-> 1, e |-> BasicPy]>>

-----------------------------------------------------------------------------
(* Specifications *)

\* Either loader, constructed with any keyword arguments, on the scenario tree
Init == \E class \in {"FileLoader", "DirLoader"}, p \in AllParams :
            Constructed(ScenarioTree, class, p)

FileLoader_set_params_call == \E p \in AllParams : FileSetParams(p)
DirLoader_set_params_call == \E p \in AllParams : DirSetParams(p)
FileLoader_load_call == \E r \in BOOLEAN : FileLoad(r)
DirLoader_load_call == \E r \in BOOLEAN : DirLoad(r)

Next ==
    \/ FileLoader_set_params_call
    \/ DirLoader_set_params_call
    \/ FileLoader_load_call
    \/ DirLoader_load_call

Spec == Init /\ [][Next]_vars

\* A configured DirLoader on every tree of at most MaxNodes entries
InitDir == \E t \in Trees, p \in DirConfigs : Constructed(t, "DirLoader", p)

DirReconfigure == \E p \in DirConfigs : DirSetParams(p)
DirWalk == DirLoad(TRUE)

NextDir == DirWalk \/ DirReconfigure

SpecDir == InitDir /\ [][NextDir]_vars

\* A configured FileLoader on every tree of at most MaxNodes entries
InitFile == \E t \in Trees, p \in FileConfigs : Constructed(t, "FileLoader", p)

FileLoadOne == FileLoad(TRUE)

NextFile == FileLoadOne

SpecFile == InitFile /\ [][NextFile]_vars

-----------------------------------------------------------------------------
(* Vocabulary of the properties: the tree described entry by entry,         *)
(* independently of the walk.                                               *)

\* the absolute path of entry i (0 is /plugins/http)
RECURSIVE NodePath(_, _)
NodePath(t, i) ==
    IF i = 0 THEN WalkRoot ELSE NodePath(t, t[i].parent) \o <<Sep>> \o t[i].e.name

\* the entries of directory d, in listing order
ChildrenOf(t, d) == SelectSeq([i \in 1..Len(t) |-> i], LAMBDA i : t[i].parent = d)

IsCodeEntry(t, i) ==
    /\ t[i].e.kind = "file"
    /\ Len(t[i].e.name) >= 2
    /\ t[i].e.name[Len(t[i].e.name) - 1] = Dot
    /\ t[i].e.name[Len(t[i].e.name)] = "py"

IsHiddenName(name) == name # <<>> /\ name[1] = Dot

\* entry i or one of the directories above it has a name that starts with a dot
RECURSIVE UnderHidden(_, _)
UnderHidden(t, i) ==
    i # 0 /\ (IsHiddenName(t[i].e.name) \/ UnderHidden(t, t[i].parent))

\* the marked classes a unit has bound when its loading ends
MarkedClasses(e) ==
    { k \in 1..(IF e.fault = "none" THEN Len(e.body) ELSE e.defined) :
        e.body[k].isclass /\ e.body[k].marked }

RECURSIVE SumOver(_, _)
SumOver(S, n) ==
    IF S = {} THEN 0
    ELSE LET x == CHOOSE y \in S : TRUE IN Cardinality(MarkedClasses(n[x].e)) + SumOver(S \ {x}, n)

\* N: the marker-carrying classes held by the code files of the tree
MarkedInTree(t) == SumOver({ i \in 1..Len(t) : IsCodeEntry(t, i) }, t)

Registrations == { i \in 1..Len(calls) : calls[i].op = "register" }
Started == { log[i].arg : i \in { j \in 1..Len(log) : log[j].msg = "START" } }

HasRegistrant == Has(loader.attrs, "module_registrant") /\ loader.attrs["module_registrant"]

\* the last operation was DirLoader.load on the existing root /plugins/http
WalkedExistingRoot ==
    /\ loader.class = "DirLoader"
    /\ op = "load"
    /\ HasRegistrant
    /\ Has(loader.attrs, "base_dir")
    /\ loader.attrs["base_path"] = Plugins
    /\ loader.attrs["base_dir"] = Http

\* the last operation was DirLoader.load on the root /plugins/nope, which does not exist
WalkedMissingRoot ==
    /\ loader.class = "DirLoader"
    /\ op = "load"
    /\ Has(loader.attrs, "base_dir")
    /\ loader.attrs["base_path"] = Plugins
    /\ loader.attrs["base_dir"] = Nope

-----------------------------------------------------------------------------
(* C1 *)

\* C1: a DirLoader.load on an existing root whose tree holds N marker-carrying
\* classes makes exactly N register calls and then exactly one end_loading call.
C1_NRegistersThenOneEndLoading ==
    WalkedExistingRoot =>
        LET N == MarkedInTree(fs) IN
        /\ Len(calls) = N + 1
        /\ \A i \in 1..N : calls[i].op = "register"
        /\ calls[N + 1].op = "end_loading"

-----------------------------------------------------------------------------
(* C2 *)

\* C2: in a tree walk a code file whose top-level code raises a runtime error
\* contributes no register call, and every sibling code file is still loaded
\* and has its marker-carrying classes registered.
C2_RaisingFileRegistersNothing ==
    WalkedExistingRoot =>
        \A i \in 1..Len(fs) :
            (IsCodeEntry(fs, i) /\ fs[i].e.fault = "RuntimeError") =>
                /\ \A c \in Registrations : calls[c].file # NodePath(fs, i)
                /\ \A j \in 1..Len(fs) :
                       (j # i /\ fs[j].parent = fs[i].parent /\ IsCodeEntry(fs, j)) =>
                           /\ NodePath(fs, j) \in Started
                           /\ \A k \in MarkedClasses(fs[j].e) :
                                  \E c \in Registrations :
                                      /\ calls[c].file = NodePath(fs, j)
                                      /\ calls[c].name = fs[j].e.body[k].name

-----------------------------------------------------------------------------
(* C3 *)

\* C3: on a configured loader no expected failure propagates out of load: it
\* returns normally, and in a tree walk every code file of every directory
\* the walk enters is still visited.
C3_NoFailurePropagates ==
    (op = "load" /\ HasRegistrant
        /\ Has(loader.attrs, "base_path")
        /\ (Has(loader.attrs, "base_dir") \/ Has(loader.attrs, "filename"))) =>
        /\ outcome = "returned"
        /\ WalkedExistingRoot =>
               \A i \in 1..Len(fs) : IsCodeEntry(fs, i) => NodePath(fs, i) \in Started

-----------------------------------------------------------------------------
(* C4 *)

\* C4: when the walk root is not an existing directory DirLoader.load makes no
\* register and no end_loading call, returns normally, and leaves an empty
\* walk record on the loader.
C4_MissingRootLoadsNothing ==
    WalkedMissingRoot =>
        /\ calls = <<>>
        /\ outcome = "returned"
        /\ structure = [set |-> TRUE, walked |-> <<>>]

\* a load on the missing root, on a non-empty tree
C4_Witness == WalkedMissingRoot /\ HasRegistrant /\ Len(fs) >= 2

-----------------------------------------------------------------------------
(* C5 *)

\* the root identifiers are relative to: base_path, or base_path/base_dir
LoaderRoot ==
    IF loader.class = "DirLoader"
    THEN path_join(loader.attrs["base_path"], loader.attrs["base_dir"])
    ELSE loader.attrs["base_path"]

\* s without a leading "./", and otherwise s
WithoutCurDirPrefix(s) == IF StartsWith(s, <<Dot, Sep>>) THEN Drop(s, 2) ELSE s

\* C5: every identifier passed to register is the file's directory relative to
\* the loader's root joined with the member's name, with only a leading "./"
\* removed: a ".." component or a leading dot of a directory name is kept.
C5_OnlyCurDirPrefixRemoved ==
    op = "load" =>
        \A c \in Registrations :
            calls[c].id =
                WithoutCurDirPrefix(
                    path_join(path_relpath(path_split(calls[c].file)[1], LoaderRoot),
                              <<calls[c].name>>))

-----------------------------------------------------------------------------
(* C6 *)

\* the tokens of a file's base name before its extension
Stem(filename) ==
    LET base == path_split(filename)[2] IN
    IF Len(base) >= 2 /\ base[Len(base) - 1] = Dot THEN Take(base, Len(base) - 2) ELSE base

\* /plugins/http holds auth/basic.py and, besides it, no code file
ScenarioOnly ==
    /\ \E d \in 1..Len(fs) :
           /\ fs[d].parent = 0 /\ fs[d].e = AuthDir
           /\ \E i \in 1..Len(fs) : fs[i].parent = d /\ fs[i].e = BasicPy
    /\ \A i \in 1..Len(fs) : fs[i].e \in {AuthDir, BasicPy, ReadmeTxt}
    /\ \A i \in 1..Len(fs) : fs[i].e = BasicPy => fs[i].parent # 0 /\ fs[fs[i].parent].parent = 0
    /\ Cardinality({ i \in 1..Len(fs) : fs[i].e = BasicPy }) = 1

BasicPyPath == <<Sep, "plugins", Sep, "http", Sep, "auth", Sep, "basic", Dot, "py">>

-----------------------------------------------------------------------------
(* C7 *)

-----------------------------------------------------------------------------
(* C8 *)

ConfigKeys == {"base_path", "base_dir", "filename"}

\* the configuration fields stored on the loader
StoredConfig(attrs) == [k \in DOMAIN attrs \cap ConfigKeys |-> attrs[k]]

WithoutTrailingSep(s) ==
    IF s # <<>> /\ s[Len(s)] = Sep THEN SubSeq(s, 1, Len(s) - 1) ELSE s

\* the configuration the last call with all required keys asked for
AcceptedConfig ==
    IF ~accepted.some THEN EmptyDict
    ELSE [k \in RequiredKeys(loader.class) |->
            IF k = "base_path" THEN WithoutTrailingSep(accepted.p[k]) ELSE accepted.p[k]]

\* C8: set_params without all required keys returns normally and leaves every
\* stored configuration field unchanged, and the stored configuration is
\* always that of the last call that supplied all required keys (base_path
\* without its trailing separator).
C8_IncompleteSetParamsChangesNothing ==
    /\ [][(op' = "set_params" /\ ~Complete(loader.class, params')) =>
            (StoredConfig(loader'.attrs) = StoredConfig(loader.attrs)
                /\ outcome' = "returned")]_vars
    /\ [](StoredConfig(loader.attrs) = AcceptedConfig)

\* an incomplete call that carried a new value for a required key, after a
\* complete one
C8_Witness ==
    /\ op = "set_params"
    /\ ~Complete(loader.class, params)
    /\ accepted.some
    /\ \E k \in DOMAIN params \cap RequiredKeys(loader.class) :
           WithoutTrailingSep(params[k]) # loader.attrs[k]

-----------------------------------------------------------------------------
(* C9 *)

RegisteredFrom(path) == \E c \in Registrations : calls[c].file = path

\* C9 as stated: an entry without the code suffix, and any entry that is hidden
\* or lies in a hidden directory, is never loaded and registers nothing.
C9_HiddenAndUnsuffixedSkipped ==
    (WalkedExistingRoot /\ outcome = "returned") =>
        \A i \in 1..Len(fs) :
            (~IsCodeEntry(fs, i) \/ UnderHidden(fs, i)) =>
                /\ NodePath(fs, i) \notin Started
                /\ ~RegisteredFrom(NodePath(fs, i))

\* C9 amended: only regular files with the code suffix are passed to the
\* loading step, an entry without the suffix registers nothing, and a hidden
\* code file or a code file in a hidden directory is loaded like any other.
C9_OnlySuffixedFilesLoaded ==
    (loader.class = "DirLoader" /\ op = "load") =>
        /\ \A path \in Started : EndsWith(path, <<Dot, "py">>) /\ os_path_isfile(fs, path)
        /\ \A i \in 1..Len(fs) :
               ~IsCodeEntry(fs, i) =>
                   NodePath(fs, i) \notin Started /\ ~RegisteredFrom(NodePath(fs, i))
        /\ (WalkedExistingRoot /\ outcome = "returned") =>
               \A i \in 1..Len(fs) : IsCodeEntry(fs, i) => NodePath(fs, i) \in Started

\* a walk over a tree with a file without the suffix and a loaded code file
\* in a hidden directory
C9_Witness ==
    /\ WalkedExistingRoot
    /\ outcome = "returned"
    /\ \E i \in 1..Len(fs) : fs[i].e = ReadmeTxt
    /\ \E i \in 1..Len(fs) :
           /\ IsCodeEntry(fs, i)
           /\ fs[i].parent # 0
           /\ IsHiddenName(fs[fs[i].parent].e.name)
           /\ RegisteredFrom(NodePath(fs, i))

-----------------------------------------------------------------------------
(* C10 *)

\* directory i has a code file somewhere beneath it
RECURSIVE HasCodeBeneath(_, _)
HasCodeBeneath(t, i) ==
    \E j \in 1..Len(t) :
        t[j].parent = i /\ (IsCodeEntry(t, j) \/ (t[j].e.kind = "dir" /\ HasCodeBeneath(t, j)))

\* the tree below directory d as a record: every code file a leaf, every
\* sub-directory for which keep holds a pair
RECURSIVE MirrorOf(_, _, _)
MirrorOf(t, kids, keepEmpty) ==
    IF kids = <<>> THEN <<>>
    ELSE LET i == Head(kids)
             rest == MirrorOf(t, Tail(kids), keepEmpty)
         IN  IF IsCodeEntry(t, i) THEN <<Leaf(NodePath(t, i))>> \o rest
             ELSE IF t[i].e.kind = "dir" /\ (keepEmpty \/ HasCodeBeneath(t, i))
             THEN <<Pair(t[i].e.name, MirrorOf(t, ChildrenOf(t, i), keepEmpty))>> \o rest
             ELSE rest

====
